---- MODULE Spec2Model ----
(***************************************************************************)
(* OptiMac: the profile store and the batch executor of the three          *)
(* interfaces that share ~/.optimac_profiles/profiles.json:                *)
(*   "enhanced"  MacOptimizer of enhanced_macos_optimizer.py               *)
(*   "gui"       MacOptimizer of optimac_gui.py                            *)
(*   "menubar"   OptiMacMenuBar of enhanced_macos_optimizer.py             *)
(* Python values are tagged records, the backing file is a sequence of     *)
(* JSON tokens, and json.dump / json.load are written out as a serializer  *)
(* and a recursive-descent parser over those tokens.                       *)
(***************************************************************************)
EXTENDS Integers, Sequences, FiniteSets, TLC

VARIABLES
    fs,                \* the per-user directory and profiles.json
    alive,             \* alive[i]: interface i has been constructed
    profiles,          \* self.profiles
    optimizations,     \* self.optimizations: key -> BooleanVar
    profile_var,       \* self.profile_var
    profile_combo,     \* self.profile_combo['values'] / the profile menu items
    run_selected_btn,  \* state of self.run_selected_btn
    status_var,        \* self.status_var
    batches,           \* the batch threads of the interface that are in flight
    completions,       \* optimization_complete callbacks queued by root.after
    pc,                \* "idle", or "writing" inside save_profiles
    pend,              \* locals of the handler that is inside save_profiles
    out,               \* what the last handler showed, logged and raised
    ops                \* number of user events handled so far

vars == <<fs, alive, profiles, optimizations, profile_var, profile_combo,
          run_selected_btn, status_var, batches, completions, pc, pend, out, ops>>

(***************************************************************************)
(* Bounds of the model.                                                    *)
(***************************************************************************)
MaxOps == 3
MaxBatches == 2

Instances == {"enhanced", "gui", "menubar"}
Guis == {"enhanced", "gui"}

(***************************************************************************)
(* Python values: str, list and dict (a dict keeps insertion order).       *)
(***************************************************************************)
PyStr(s) == [t |-> "str", s |-> s]
PyList(items) == [t |-> "list", items |-> items]
PyDict(items) == [t |-> "dict", items |-> items]

IsDict(v) == v.t = "dict"
IsList(v) == v.t = "list"

StrList(keys) == PyList([j \in 1..Len(keys) |-> PyStr(keys[j])])

DictHas(d, k) == \E j \in 1..Len(d.items) : d.items[j][1] = k
DictGet(d, k) == d.items[CHOOSE j \in 1..Len(d.items) : d.items[j][1] = k][2]
DictKeys(d) == [j \in 1..Len(d.items) |-> d.items[j][1]]
DictSet(d, k, v) ==
    IF DictHas(d, k)
    THEN PyDict([j \in 1..Len(d.items) |->
                    IF d.items[j][1] = k THEN <<k, v>> ELSE d.items[j]])
    ELSE PyDict(Append(d.items, <<k, v>>))
\* popitem() in place of del d[k]: the entry added last is removed
DictPopItem(d, k) == PyDict(SubSeq(d.items, 1, Len(d.items) - 1))

DictDel(d, k) ==
    LET Keep(e) == e[1] # k IN PyDict(SelectSeq(d.items, Keep))

Range(s) == {s[j] : j \in 1..Len(s)}

(***************************************************************************)
(* JSON text: tokens.  Whitespace (indent=2) carries no meaning and is not *)
(* represented.                                                            *)
(***************************************************************************)
Punct(c) == [k |-> "p", v |-> c]
StrTok(s) == [k |-> "s", v |-> s]

RECURSIVE JsonDump(_)
RECURSIVE DumpElements(_, _)
RECURSIVE DumpMembers(_, _)

\* a serializer that writes the elements of a list last to first
DumpElementsReversed(items, j) ==
    IF j > Len(items) THEN <<>>
    ELSE (IF j > 1 THEN <<Punct(",")>> ELSE <<>>)
         \o JsonDump(items[Len(items) + 1 - j]) \o DumpElements(items, j + 1)

DumpElements(items, j) ==
    IF j > Len(items) THEN <<>>
    ELSE (IF j > 1 THEN <<Punct(",")>> ELSE <<>>)
         \o JsonDump(items[j]) \o DumpElements(items, j + 1)

DumpMembers(items, j) ==
    IF j > Len(items) THEN <<>>
    ELSE (IF j > 1 THEN <<Punct(",")>> ELSE <<>>)
         \o <<StrTok(items[j][1]), Punct(":")>>
         \o JsonDump(items[j][2]) \o DumpMembers(items, j + 1)

JsonDump(v) ==
    CASE v.t = "str" -> <<StrTok(v.s)>>
      [] v.t = "list" -> <<Punct("[")>> \o DumpElements(v.items, 1) \o <<Punct("]")>>
      [] v.t = "dict" -> <<Punct("{")>> \o DumpMembers(v.items, 1) \o <<Punct("}")>>

ParseFail == [ok |-> FALSE, val |-> PyStr(""), next |-> 0]
ParseOk(v, n) == [ok |-> TRUE, val |-> v, next |-> n]
TokAt(toks, p, c) == p <= Len(toks) /\ toks[p] = Punct(c)

RECURSIVE ParseValue(_, _)
RECURSIVE ParseElements(_, _, _)
RECURSIVE ParseMembers(_, _, _)

ParseElements(toks, p, acc) ==
    LET r == ParseValue(toks, p) IN
    IF ~r.ok THEN ParseFail
    ELSE IF TokAt(toks, r.next, ",")
         THEN ParseElements(toks, r.next + 1, Append(acc, r.val))
    ELSE IF TokAt(toks, r.next, "]")
         THEN ParseOk(PyList(Append(acc, r.val)), r.next + 1)
    ELSE ParseFail

ParseMembers(toks, p, acc) ==
    IF ~(p <= Len(toks) /\ toks[p].k = "s" /\ TokAt(toks, p + 1, ":"))
    THEN ParseFail
    ELSE LET r == ParseValue(toks, p + 2)
             d == DictSet(acc, toks[p].v, r.val)
         IN  IF ~r.ok THEN ParseFail
             ELSE IF TokAt(toks, r.next, ",")
                  THEN ParseMembers(toks, r.next + 1, d)
             ELSE IF TokAt(toks, r.next, "}")
                  THEN ParseOk(d, r.next + 1)
             ELSE ParseFail

ParseValue(toks, p) ==
    IF p > Len(toks) THEN ParseFail
    ELSE IF toks[p].k = "s" THEN ParseOk(PyStr(toks[p].v), p + 1)
    ELSE IF toks[p].v = "["
         THEN IF TokAt(toks, p + 1, "]") THEN ParseOk(PyList(<<>>), p + 2)
              ELSE ParseElements(toks, p + 1, <<>>)
    ELSE IF toks[p].v = "{"
         THEN IF TokAt(toks, p + 1, "}") THEN ParseOk(PyDict(<<>>), p + 2)
              ELSE ParseMembers(toks, p + 1, PyDict(<<>>))
    ELSE ParseFail

\* json.load: a value followed by nothing; anything else raises.
JsonLoad(toks) ==
    LET r == ParseValue(toks, 1) IN
    IF r.ok /\ r.next = Len(toks) + 1 THEN r ELSE ParseFail

(***************************************************************************)
(* The interfaces.  The model keeps five optimization keys: every list of  *)
(* keys of the source (the checklists in the order the tabs create them,   *)
(* the command tables, the default profiles) is restricted to these five.  *)
(*   reduce_motion, optimize_tcp     enhanced only                         *)
(*   reduce_animations               gui only                              *)
(*   disable_dock_animation, optimize_git   both                           *)
(***************************************************************************)
Checklist(i) ==
    CASE i = "enhanced" -> <<"reduce_motion", "disable_dock_animation",
                             "optimize_tcp", "optimize_git">>
      [] i = "gui" -> <<"reduce_animations", "disable_dock_animation", "optimize_git">>
      [] OTHER -> <<>>

\* the keys of optimization_commands / optimizations_map
Catalog(i) ==
    CASE i = "enhanced" -> {"reduce_motion", "disable_dock_animation",
                            "optimize_tcp", "optimize_git"}
      [] i = "gui" -> {"reduce_animations", "disable_dock_animation", "optimize_git"}
      [] OTHER -> {}

Profile(keys, description) ==
    PyDict(<< <<"optimizations", StrList(keys)>>,
              <<"description", PyStr(description)>> >>)

\* datetime.now().isoformat(): one abstract instant
Now == "2025-01-01T00:00:00"

NewProfile(keys, description) ==
    PyDict(<< <<"optimizations", StrList(keys)>>,
              <<"description", PyStr(description)>>,
              <<"created", PyStr(Now)>> >>)

DefaultProfiles(i) ==
    CASE i = "enhanced" ->
           PyDict(<< <<"Performance Boost",
                       Profile(<<"disable_dock_animation", "reduce_motion">>,
                               "Quick performance improvements")>>,
                     <<"Developer Setup",
                       Profile(<<"optimize_git">>, "Optimize development environment")>>,
                     <<"Network Optimization",
                       Profile(<<"optimize_tcp">>, "Network performance tweaks")>> >>)
      [] i = "gui" ->
           PyDict(<< <<"Performance Boost",
                       Profile(<<"disable_dock_animation", "reduce_animations">>,
                               "Quick performance improvements")>>,
                     <<"Developer Setup",
                       Profile(<<"optimize_git">>, "Optimize development environment")>>,
                     <<"Gaming Mode",
                       Profile(<<"disable_dock_animation">>,
                               "Optimize for gaming performance")>> >>)
      [] OTHER ->
           PyDict(<< <<"Performance Boost",
                       Profile(<<"disable_dock_animation", "reduce_motion">>,
                               "Quick performance improvements")>>,
                     <<"Developer Setup",
                       Profile(<<"optimize_git">>, "Optimize development environment")>> >>)

\* load_profiles that lays the parsed document over the defaults
\* ({**defaults, **json.load(f)}): a default the document lacks comes back
load_profiles_merging(i, f) ==
    IF f.file /\ JsonLoad(f.text).ok
    THEN LET loaded == JsonLoad(f.text).val
             Missing(e) == ~DictHas(loaded, e[1])
         IN  IF IsDict(loaded)
             THEN PyDict(loaded.items \o SelectSeq(DefaultProfiles(i).items, Missing))
             ELSE loaded
    ELSE DefaultProfiles(i)

\* load_profiles after its mkdir: the parsed document, or the defaults when
\* the file is missing or json.load raises (bare except: pass)
load_profiles(i, f) ==
    IF f.file /\ JsonLoad(f.text).ok THEN JsonLoad(f.text).val
    ELSE DefaultProfiles(i)

\* [key for key, var in self.optimizations.items() if var.get()]
SelectedOf(i, checks) ==
    LET Checked(k) == checks[k] IN SelectSeq(Checklist(i), Checked)

Selected(i) == SelectedOf(i, optimizations[i])

AllClear(i) == [k \in Range(Checklist(i)) |-> FALSE]

NoOut == [op |-> "none", raised |-> FALSE, io |-> "none",
          dialogs |-> <<>>, logs |-> <<>>]
Out(op, dialogs, logs) ==
    [op |-> op, raised |-> FALSE, io |-> "none", dialogs |-> dialogs, logs |-> logs]
Raised(op, io, dialogs, logs) ==
    [op |-> op, raised |-> TRUE, io |-> io, dialogs |-> dialogs, logs |-> logs]

\* the locals of a handler that calls save_profiles
Pend(op, name, selected, description) ==
    [op |-> op, name |-> name, selected |-> selected, description |-> description]

NoPend == Pend("none", "", <<>>, "")

(***************************************************************************)
(* Initial states: no interface is running.  The file system is a first    *)
(* run (no directory), an empty profiles.json, or a document written by    *)
(* hand.                                                                   *)
(***************************************************************************)
HandEdited ==
    PyDict(<< <<"Mixed",
                Profile(<<"optimize_git", "disable_dock_animation",
                          "disable_dock_animation", "reduce_animations">>,
                        "Hand edited")>> >>)

InitialFs ==
    { [dir |-> FALSE, file |-> FALSE, text |-> <<>>],
      [dir |-> TRUE, file |-> TRUE, text |-> <<>>],
      [dir |-> TRUE, file |-> TRUE, text |-> JsonDump(HandEdited)] }

\* interface i as its constructor leaves it, having loaded `loaded`
Constructed(i, loaded) ==
    [alive |-> TRUE, profiles |-> loaded, profile_combo |-> DictKeys(loaded),
     status_var |-> IF i \in Guis THEN "Ready - Select optimizations to run" ELSE "",
     out |-> Out("init", <<>>, IF i \in Guis THEN <<"initialized">> ELSE <<>>)]

\* interface i when it does not run
NotRunning ==
    [alive |-> FALSE, profiles |-> PyDict(<<>>), profile_combo |-> <<>>,
     status_var |-> "", out |-> NoOut]

\* Some interfaces have been started on the initial file system and none
\* has been used yet.
Init ==
    /\ fs \in InitialFs
    /\ \E running \in SUBSET Instances :
         LET st == [i \in Instances |->
                      IF i \in running /\ fs.dir
                      THEN Constructed(i, load_profiles(i, fs)) ELSE NotRunning]
         IN  /\ alive = [i \in Instances |-> st[i].alive]
             /\ profiles = [i \in Instances |-> st[i].profiles]
             /\ profile_combo = [i \in Instances |-> st[i].profile_combo]
             /\ status_var = [i \in Instances |-> st[i].status_var]
             /\ out = [i \in Instances |-> st[i].out]
    /\ optimizations = [i \in Instances |-> AllClear(i)]
    /\ profile_var = [i \in Instances |-> ""]
    /\ run_selected_btn = [i \in Instances |-> "normal"]
    /\ batches = [i \in Instances |-> <<>>]
    /\ completions = [i \in Instances |-> 0]
    /\ pc = [i \in Instances |-> "idle"]
    /\ pend = [i \in Instances |-> NoPend]
    /\ ops = 0

\* the user can act on interface i: it runs and its interactive thread is
\* not inside a handler
Interactive(i) == alive[i] /\ pc[i] = "idle" /\ ops < MaxOps

\* PROFILES_DIR.mkdir(exist_ok=True): nothing to do when the directory
\* exists; otherwise it is created, or mkdir raises
MkdirOutcomes == IF fs.dir THEN {TRUE} ELSE {TRUE, FALSE}

\* open(profiles_file, 'r') and the read inside json.load: they succeed, or
\* raise OSError inside the try of load_profiles (a file that is there but
\* cannot be read)
ReadOutcomes == IF fs.file THEN {TRUE, FALSE} ELSE {TRUE}

(***************************************************************************)
(* __init__ of the interface: load_profiles, then the widgets.             *)
(***************************************************************************)
Start(i) ==
    /\ ~alive[i]
    /\ ops < MaxOps
    /\ ops' = ops + 1
    /\ \E made \in MkdirOutcomes, readable \in ReadOutcomes :
         IF ~made
         THEN /\ out' = [out EXCEPT ![i] = Raised("init", "mkdir_failed", <<>>, <<>>)]
              /\ UNCHANGED <<fs, alive, profiles, profile_combo, status_var>>
         ELSE LET f == [fs EXCEPT !.dir = TRUE]
                  loaded == IF readable THEN load_profiles(i, f) ELSE DefaultProfiles(i)
              IN  /\ fs' = f
                  /\ IF IsDict(loaded)
                     THEN /\ alive' = [alive EXCEPT ![i] = TRUE]
                          /\ profiles' = [profiles EXCEPT ![i] = loaded]
                          /\ profile_combo' = [profile_combo EXCEPT ![i] = DictKeys(loaded)]
                          /\ status_var' = [status_var EXCEPT ![i] =
                                IF i \in Guis THEN "Ready - Select optimizations to run" ELSE ""]
                          /\ out' = [out EXCEPT ![i] =
                                [op |-> "init", raised |-> FALSE,
                                 io |-> IF readable THEN "none" ELSE "read_failed",
                                 dialogs |-> <<>>,
                                 logs |-> IF i \in Guis THEN <<"initialized">> ELSE <<>>]]
                     ELSE \* self.profiles.keys() raises AttributeError
                          /\ out' = [out EXCEPT ![i] = Raised("init", "none", <<>>, <<>>)]
                          /\ UNCHANGED <<alive, profiles, profile_combo, status_var>>
    /\ UNCHANGED <<optimizations, profile_var, run_selected_btn, batches,
                   completions, pc, pend>>

\* the user clicks a checkbox
ToggleOption(i, k) ==
    /\ Interactive(i)
    /\ i \in Guis
    /\ ops' = ops + 1
    /\ optimizations' = [optimizations EXCEPT ![i][k] = ~optimizations[i][k]]
    /\ UNCHANGED <<fs, alive, profiles, profile_var, profile_combo, run_selected_btn,
                   status_var, batches, completions, pc, pend, out>>

\* the user picks an entry of the read-only profile combobox
SelectProfile(i, n) ==
    /\ Interactive(i)
    /\ i \in Guis
    /\ n # profile_var[i]
    /\ ops' = ops + 1
    /\ profile_var' = [profile_var EXCEPT ![i] = n]
    /\ UNCHANGED <<fs, alive, profiles, optimizations, profile_combo, run_selected_btn,
                   status_var, batches, completions, pc, pend, out>>

(***************************************************************************)
(* load_selected_profile                                                   *)
(***************************************************************************)
\* profile_name is empty or not in self.profiles
NoSuchProfile(i) == profile_var[i] = "" \/ ~DictHas(profiles[i], profile_var[i])

\* what `for optimization in profile['optimizations']` yields
ProfileKeys(p) ==
    LET v == DictGet(p, "optimizations") IN
    CASE v.t = "list" -> [j \in 1..Len(v.items) |->
                             IF v.items[j].t = "str" THEN v.items[j].s ELSE ""]
      [] v.t = "dict" -> DictKeys(v)
      [] OTHER -> <<>>

\* profile['optimizations'] raises (KeyError, TypeError), or an element of
\* the list is unhashable
BadOptimizations(p) ==
    \/ ~IsDict(p)
    \/ ~DictHas(p, "optimizations")
    \/ LET v == DictGet(p, "optimizations") IN
       IsList(v) /\ \E j \in 1..Len(v.items) : v.items[j].t # "str"

\* the check boxes when the loop that clears them is left out: the boxes of
\* the profile are set and the others stay as they are
ChecksOfAdding(i, keys) ==
    [k \in Range(Checklist(i)) |-> k \in Range(keys) \/ optimizations[i][k]]

\* the check boxes after "clear all, then set those of the profile"
ChecksOf(i, keys) == [k \in Range(Checklist(i)) |-> k \in Range(keys)]

\* the whole of load_selected_profile, as the values it leaves behind
load_selected_profile(i) ==
    IF NoSuchProfile(i)
    THEN [found |-> FALSE, raised |-> FALSE, checks |-> optimizations[i],
          dialogs |-> <<"showwarning: No Profile">>, logs |-> <<>>]
    ELSE LET p == DictGet(profiles[i], profile_var[i]) IN
         IF BadOptimizations(p)
         THEN [found |-> TRUE, raised |-> TRUE, checks |-> AllClear(i),
               dialogs |-> <<>>, logs |-> <<>>]
         ELSE IF i = "enhanced" /\ ~DictHas(p, "description")
         THEN [found |-> TRUE, raised |-> TRUE, checks |-> ChecksOf(i, ProfileKeys(p)),
               dialogs |-> <<>>, logs |-> <<>>]
         ELSE [found |-> TRUE, raised |-> FALSE, checks |-> ChecksOf(i, ProfileKeys(p)),
               dialogs |-> <<"showinfo: Profile Loaded">>, logs |-> <<"Loaded profile">>]

LoadSelectedProfile(i) ==
    /\ Interactive(i)
    /\ i \in Guis
    /\ ops' = ops + 1
    /\ LET r == load_selected_profile(i) IN
       /\ optimizations' = [optimizations EXCEPT ![i] = r.checks]
       /\ out' = [out EXCEPT ![i] =
             [op |-> "load", raised |-> r.raised, io |-> "none",
              dialogs |-> r.dialogs, logs |-> r.logs]]
    /\ UNCHANGED <<fs, alive, profiles, profile_var, profile_combo, run_selected_btn,
                   status_var, batches, completions, pc, pend>>

(***************************************************************************)
(* save_profiles, in two steps: mkdir and open(..., 'w') truncate the      *)
(* file; json.dump then writes it.  Other interfaces run in between.       *)
(***************************************************************************)
\* open(profiles_file, 'w') succeeds or raises
OpenOutcomes == {TRUE, FALSE}

\* a handler with the locals `locals` has changed self.profiles and calls
\* save_profiles
SaveProfilesBegin(i, locals, dialogs) ==
    \E made \in MkdirOutcomes, opened \in OpenOutcomes :
       IF ~made
       THEN /\ out' = [out EXCEPT ![i] = Raised(locals.op, "mkdir_failed", dialogs, <<>>)]
            /\ UNCHANGED <<fs, pc, pend>>
       ELSE IF ~opened
       THEN /\ fs' = [fs EXCEPT !.dir = TRUE]
            /\ out' = [out EXCEPT ![i] = Raised(locals.op, "open_failed", dialogs, <<>>)]
            /\ UNCHANGED <<pc, pend>>
       ELSE /\ fs' = [dir |-> TRUE, file |-> TRUE, text |-> <<>>]
            /\ pc' = [pc EXCEPT ![i] = "writing"]
            /\ pend' = [pend EXCEPT ![i] = locals]
            /\ out' = [out EXCEPT ![i] = Out(locals.op, dialogs, <<>>)]

\* how much of the document a failing json.dump leaves in the file
PartialLengths(n) == {n \div 2}

\* save_profiles with the write wrapped in try/except: pass, so that the
\* handler goes on to its log line and its message after a failed json.dump
SaveProfilesEndSwallowed(i) ==
    /\ alive[i]
    /\ pc[i] = "writing"
    /\ pc' = [pc EXCEPT ![i] = "idle"]
    /\ pend' = [pend EXCEPT ![i] = NoPend]
    /\ LET text == JsonDump(profiles[i]) IN
       \E failed \in BOOLEAN :
          /\ fs' = [fs EXCEPT !.text =
                IF failed THEN SubSeq(text, 1, Len(text) \div 2) ELSE text]
          /\ profile_combo' = [profile_combo EXCEPT ![i] = DictKeys(profiles[i])]
          /\ profile_var' = [profile_var EXCEPT ![i] =
                IF pend[i].op = "save" THEN pend[i].name ELSE ""]
          /\ out' = [out EXCEPT ![i] =
                [op |-> pend[i].op, raised |-> FALSE,
                 io |-> IF failed THEN "dump_failed" ELSE "ok",
                 dialogs |-> out[i].dialogs \o
                    <<IF pend[i].op = "save" THEN "showinfo: Profile Saved"
                      ELSE "showinfo: Profile Deleted">>,
                 logs |-> <<IF pend[i].op = "save" THEN "Saved profile"
                            ELSE "Deleted profile">>]]
    /\ UNCHANGED <<alive, profiles, optimizations, run_selected_btn, status_var,
                   batches, completions, ops>>

\* save_profiles that writes list(self.profiles), the names of the
\* profiles, in place of the mapping
SaveProfilesEndNamesOnly(i) ==
    /\ alive[i]
    /\ pc[i] = "writing"
    /\ pc' = [pc EXCEPT ![i] = "idle"]
    /\ pend' = [pend EXCEPT ![i] = NoPend]
    /\ fs' = [fs EXCEPT !.text = JsonDump(StrList(DictKeys(profiles[i])))]
    /\ profile_combo' = [profile_combo EXCEPT ![i] = DictKeys(profiles[i])]
    /\ profile_var' = [profile_var EXCEPT ![i] =
          IF pend[i].op = "save" THEN pend[i].name ELSE ""]
    /\ out' = [out EXCEPT ![i] =
          [op |-> pend[i].op, raised |-> FALSE, io |-> "ok",
           dialogs |-> out[i].dialogs, logs |-> <<"Saved profile">>]]
    /\ UNCHANGED <<alive, profiles, optimizations, run_selected_btn, status_var,
                   batches, completions, ops>>

\* save_profiles followed by the refresh of the selector in a `finally`: the
\* list is refreshed after a failed json.dump as well
SaveProfilesEndRefreshing(i) ==
    /\ alive[i]
    /\ pc[i] = "writing"
    /\ pc' = [pc EXCEPT ![i] = "idle"]
    /\ pend' = [pend EXCEPT ![i] = NoPend]
    /\ profile_combo' = [profile_combo EXCEPT ![i] = DictKeys(profiles[i])]
    /\ LET text == JsonDump(profiles[i]) IN
       \/ /\ fs' = [fs EXCEPT !.text = text]
          /\ profile_var' = [profile_var EXCEPT ![i] =
                IF pend[i].op = "save" THEN pend[i].name ELSE ""]
          /\ out' = [out EXCEPT ![i] =
                [op |-> pend[i].op, raised |-> FALSE, io |-> "ok",
                 dialogs |-> out[i].dialogs \o
                    <<IF pend[i].op = "save" THEN "showinfo: Profile Saved"
                      ELSE "showinfo: Profile Deleted">>,
                 logs |-> <<IF pend[i].op = "save" THEN "Saved profile"
                            ELSE "Deleted profile">>]]
       \/ /\ \E n \in PartialLengths(Len(text)) :
                fs' = [fs EXCEPT !.text = SubSeq(text, 1, n)]
          /\ out' = [out EXCEPT ![i] =
                Raised(pend[i].op, "dump_failed", out[i].dialogs, <<>>)]
          /\ UNCHANGED profile_var
    /\ UNCHANGED <<alive, profiles, optimizations, run_selected_btn, status_var,
                   batches, completions, ops>>

\* json.dump writes the document and the handler goes on, or json.dump
\* raises part-way and the handler is left
SaveProfilesEnd(i) ==
    /\ alive[i]
    /\ pc[i] = "writing"
    /\ pc' = [pc EXCEPT ![i] = "idle"]
    /\ pend' = [pend EXCEPT ![i] = NoPend]
    /\ LET text == JsonDump(profiles[i]) IN
       \/ /\ fs' = [fs EXCEPT !.text = text]
          /\ profile_combo' = [profile_combo EXCEPT ![i] = DictKeys(profiles[i])]
          /\ profile_var' = [profile_var EXCEPT ![i] =
                IF pend[i].op = "save" THEN pend[i].name ELSE ""]
          /\ out' = [out EXCEPT ![i] =
                [op |-> pend[i].op, raised |-> FALSE, io |-> "ok",
                 dialogs |-> out[i].dialogs \o
                    <<IF pend[i].op = "save" THEN "showinfo: Profile Saved"
                      ELSE "showinfo: Profile Deleted">>,
                 logs |-> <<IF pend[i].op = "save" THEN "Saved profile"
                            ELSE "Deleted profile">>]]
       \/ /\ \E n \in PartialLengths(Len(text)) :
                fs' = [fs EXCEPT !.text = SubSeq(text, 1, n)]
          /\ out' = [out EXCEPT ![i] =
                Raised(pend[i].op, "dump_failed", out[i].dialogs, <<>>)]
          /\ UNCHANGED <<profile_combo, profile_var>>
    /\ UNCHANGED <<alive, profiles, optimizations, run_selected_btn, status_var,
                   batches, completions, ops>>

(***************************************************************************)
(* save_current_profile                                                    *)
(***************************************************************************)
\* what the user can type as a profile name; ProfileDialog strips it
NameInputs == {"Custom", "Performance Boost"}
DescriptionInputs == {"", "Tuned"}

\* f"Custom profile with {len(selected)} optimizations"
CustomDescription(n) ==
    CASE n = 1 -> "Custom profile with 1 optimizations"
      [] n = 2 -> "Custom profile with 2 optimizations"
      [] OTHER -> "Custom profile with 3 optimizations"

\* the description stored with a profile saved from interface i
DescriptionOf(i, typed, selected) ==
    IF i = "enhanced"
    THEN (IF typed = "" THEN "No description provided" ELSE typed)
    ELSE CustomDescription(Len(selected))

Reverse(s) == [j \in 1..Len(s) |-> s[Len(s) + 1 - j]]

\* a store that loses the order of the selection: the keys are kept in
\* another order than the one they were selected in
UpsertUnordered(d, name, selected, description) ==
    DictSet(d, name, NewProfile(Reverse(selected), description))

\* a store kept as a list of entries to which save always appends
UpsertAppending(d, name, selected, description) ==
    PyDict(Append(d.items, <<name, NewProfile(selected, description)>>))

\* save_current_profile that reads profiles.json again before it adds the
\* profile (self.profiles = self.load_profiles())
UpsertReloading(d, name, selected, description) ==
    DictSet(IF fs.file /\ JsonLoad(fs.text).ok /\ IsDict(JsonLoad(fs.text).val)
            THEN JsonLoad(fs.text).val ELSE d,
            name, NewProfile(selected, description))

\* self.profiles[name] = {...}
Upsert(d, name, selected, description) ==
    DictSet(d, name, NewProfile(selected, description))

SaveCurrentProfile(i) ==
    /\ Interactive(i)
    /\ i \in Guis
    /\ ops' = ops + 1
    /\ IF Selected(i) = <<>>
       THEN /\ out' = [out EXCEPT ![i] = Out("save", <<"showwarning: No Selection">>, <<>>)]
            /\ UNCHANGED <<fs, profiles, pc, pend>>
       ELSE \/ \* the dialog is cancelled
               /\ out' = [out EXCEPT ![i] = Out("save", <<>>, <<>>)]
               /\ UNCHANGED <<fs, profiles, pc, pend>>
            \/ \E name \in NameInputs, typed \in DescriptionInputs :
                 LET description == DescriptionOf(i, typed, Selected(i)) IN
                 /\ i = "gui" => typed = ""
                 /\ profiles' = [profiles EXCEPT ![i] =
                       Upsert(profiles[i], name, Selected(i), description)]
                 /\ SaveProfilesBegin(i, Pend("save", name, Selected(i), description),
                                      <<>>)
    /\ UNCHANGED <<alive, optimizations, profile_var, profile_combo, run_selected_btn,
                   status_var, batches, completions>>

(***************************************************************************)
(* delete_selected_profile                                                 *)
(***************************************************************************)
\* delete_selected_profile without the membership test: the name is
\* removed with pop(name, None) and the store is written whatever the name
DeleteSelectedProfileUnchecked(i) ==
    /\ Interactive(i)
    /\ i \in Guis
    /\ ops' = ops + 1
    /\ \/ /\ out' = [out EXCEPT ![i] = Out("delete", <<"askyesno: no">>, <<>>)]
          /\ UNCHANGED <<fs, profiles, pc, pend>>
       \/ /\ profiles' = [profiles EXCEPT ![i] = DictDel(profiles[i], profile_var[i])]
          /\ SaveProfilesBegin(i, Pend("delete", profile_var[i], <<>>, ""),
                               <<"askyesno: yes">>)
    /\ UNCHANGED <<alive, optimizations, profile_var, profile_combo, run_selected_btn,
                   status_var, batches, completions>>

DeleteSelectedProfile(i) ==
    /\ Interactive(i)
    /\ i \in Guis
    /\ ops' = ops + 1
    /\ IF NoSuchProfile(i)
       THEN /\ out' = [out EXCEPT ![i] = Out("delete", <<"showwarning: No Profile">>, <<>>)]
            /\ UNCHANGED <<fs, profiles, pc, pend>>
       ELSE \/ \* askyesno answered no
               /\ out' = [out EXCEPT ![i] = Out("delete", <<"askyesno: no">>, <<>>)]
               /\ UNCHANGED <<fs, profiles, pc, pend>>
            \/ /\ profiles' = [profiles EXCEPT ![i] = DictDel(profiles[i], profile_var[i])]
               /\ SaveProfilesBegin(i, Pend("delete", profile_var[i], <<>>, ""),
                                    <<"askyesno: yes">>)
    /\ UNCHANGED <<alive, optimizations, profile_var, profile_combo, run_selected_btn,
                   status_var, batches, completions>>

(***************************************************************************)
(* run_selected_optimizations and run_selected_profile                     *)
(***************************************************************************)
\* the outcome of one key of a batch: how its command ended ("exit" with
\* exit code rc, "exception" when subprocess.run raised, "unknown" when the
\* key has no command) and the kind of line logged for it
Result(key, how, rc, logged) == [key |-> key, how |-> how, rc |-> rc, logged |-> logged]

NoResult == Result("", "none", -1, "none")

\* a batch thread as it starts: `selected`, the loop index, whether a shell
\* command is running, the keys an outcome was logged for so far, in the
\* order of the log, and the last of these outcomes
NewBatch(selected) ==
    [selected |-> selected, idx |-> 1, running |-> FALSE, done |-> <<>>,
     last |-> NoResult]

\* the batch threads in flight on the machine
InFlight == Len(batches["enhanced"]) + Len(batches["gui"])

\* run_selected_optimizations with the check boxes `checks`; `dialogs` and
\* `logs` are what the calling handler has shown and logged before
run_selected_optimizations(i, op, checks, dialogs, logs) ==
    LET selected == SelectedOf(i, checks) IN
    IF selected = <<>>
    THEN /\ out' = [out EXCEPT ![i] =
               Out(op, dialogs \o <<"showwarning: No Selection">>, logs)]
         /\ UNCHANGED <<batches, status_var, run_selected_btn>>
    ELSE \/ \* askyesno answered no (the enhanced interface asks)
            /\ i = "enhanced"
            /\ out' = [out EXCEPT ![i] = Out(op, dialogs \o <<"askyesno: no">>, logs)]
            /\ UNCHANGED <<batches, status_var, run_selected_btn>>
         \/ /\ InFlight < MaxBatches
            /\ batches' = [batches EXCEPT ![i] = Append(@, NewBatch(selected))]
            /\ IF i = "enhanced"
               THEN /\ status_var' = [status_var EXCEPT ![i] = "Running optimizations..."]
                    /\ run_selected_btn' = [run_selected_btn EXCEPT ![i] = "disabled"]
                    /\ out' = [out EXCEPT ![i] =
                          Out(op, dialogs \o <<"askyesno: yes">>, logs)]
               ELSE /\ out' = [out EXCEPT ![i] =
                          Out(op, dialogs, logs \o <<"Running optimizations">>)]
                    /\ UNCHANGED <<status_var, run_selected_btn>>

\* the "Run Selected Optimizations" button; a disabled button ignores clicks
RunSelectedOptimizations(i) ==
    /\ Interactive(i)
    /\ i \in Guis
    /\ run_selected_btn[i] = "normal"
    /\ ops' = ops + 1
    /\ run_selected_optimizations(i, "run", optimizations[i], <<>>, <<>>)
    /\ UNCHANGED <<fs, alive, profiles, optimizations, profile_var, profile_combo,
                   completions, pc, pend>>

\* the "Run Profile" button
RunSelectedProfile(i) ==
    /\ Interactive(i)
    /\ i \in Guis
    /\ ops' = ops + 1
    /\ IF i = "enhanced" /\ NoSuchProfile(i)
       THEN /\ out' = [out EXCEPT ![i] =
                  Out("run_profile", <<"showwarning: No Profile">>, <<>>)]
            /\ UNCHANGED <<optimizations, batches, status_var, run_selected_btn>>
       ELSE LET r == load_selected_profile(i) IN
            /\ optimizations' = [optimizations EXCEPT ![i] = r.checks]
            /\ IF r.raised
               THEN /\ out' = [out EXCEPT ![i] = Raised("run_profile", "none", <<>>, <<>>)]
                    /\ UNCHANGED <<batches, status_var, run_selected_btn>>
               ELSE run_selected_optimizations(i, "run_profile", r.checks, r.dialogs, r.logs)
    /\ UNCHANGED <<fs, alive, profiles, profile_var, profile_combo, completions, pc, pend>>

(***************************************************************************)
(* The batch thread: execute_optimizations / run_optimizations_thread.     *)
(***************************************************************************)
\* exit codes of a shell command
ExitCodes == {0, 1}

\* run_command that does not look at result.returncode
LoggedForAny(rc) == "success"

\* what run_command logs for a command that exited with `rc`
LoggedFor(rc) == IF rc = 0 THEN "success" ELSE "error"

\* the thread logs an outcome for the key it is at and moves on
Logged(t, r) ==
    [t EXCEPT !.running = FALSE, !.idx = @ + 1, !.done = Append(@, r.key), !.last = r]

SetBatch(i, b, rec) == batches' = [batches EXCEPT ![i][b] = rec]

\* the loop without the `in` test: optimization_commands[key] raises
\* KeyError for an unknown key and the thread leaves the loop
BatchStepKeyError(i, b) ==
    /\ alive[i]
    /\ b \in 1..Len(batches[i])
    /\ LET t == batches[i][b] IN
       /\ ~t.running
       /\ t.idx <= Len(t.selected)
       /\ LET key == t.selected[t.idx] IN
          IF key \notin Catalog(i)
          THEN SetBatch(i, b, [t EXCEPT !.idx = Len(t.selected) + 1])
          ELSE \/ SetBatch(i, b, [t EXCEPT !.running = TRUE])
               \/ SetBatch(i, b, Logged(t, Result(key, "exception", -1, "exception")))
    /\ UNCHANGED <<fs, alive, profiles, optimizations, profile_var, profile_combo,
                   run_selected_btn, status_var, completions, pc, pend, out, ops>>

\* the loop with subprocess.Popen in place of subprocess.run: the thread
\* does not wait for the command and goes on to the command of the next key
BatchStepNoWait(i, b) ==
    /\ alive[i]
    /\ b \in 1..Len(batches[i])
    /\ LET t == batches[i][b] IN
       /\ t.idx <= Len(t.selected)
       /\ LET key == t.selected[t.idx] IN
          IF t.running
          THEN /\ t.idx < Len(t.selected)
               /\ t.selected[t.idx + 1] \in Catalog(i)
               /\ SetBatch(i, b, [t EXCEPT !.idx = @ + 1])
          ELSE IF key \notin Catalog(i)
          THEN SetBatch(i, b, Logged(t, Result(key, "unknown", -1, "unknown")))
          ELSE \/ SetBatch(i, b, [t EXCEPT !.running = TRUE])
               \/ SetBatch(i, b, Logged(t, Result(key, "exception", -1, "exception")))
    /\ UNCHANGED <<fs, alive, profiles, optimizations, profile_var, profile_combo,
                   run_selected_btn, status_var, completions, pc, pend, out, ops>>

\* the loop takes the next key: an unknown key is logged and passed over;
\* otherwise subprocess.run starts the command, or raises
BatchStep(i, b) ==
    /\ alive[i]
    /\ b \in 1..Len(batches[i])
    /\ LET t == batches[i][b] IN
       /\ ~t.running
       /\ t.idx <= Len(t.selected)
       /\ LET key == t.selected[t.idx] IN
          IF key \notin Catalog(i)
          THEN SetBatch(i, b, Logged(t, Result(key, "unknown", -1, "unknown")))
          ELSE \/ SetBatch(i, b, [t EXCEPT !.running = TRUE])
               \/ SetBatch(i, b, Logged(t, Result(key, "exception", -1, "exception")))
    /\ UNCHANGED <<fs, alive, profiles, optimizations, profile_var, profile_combo,
                   run_selected_btn, status_var, completions, pc, pend, out, ops>>

\* run_command that lets a failed command end the batch: a non-zero exit
\* code raises (check=True) and the thread leaves the loop
CommandExitAborting(i, b) ==
    /\ alive[i]
    /\ b \in 1..Len(batches[i])
    /\ LET t == batches[i][b] IN
       /\ t.running
       /\ \E rc \in ExitCodes :
            /\ SetBatch(i, b,
                  [Logged(t, Result(t.selected[t.idx], "exit", rc, LoggedFor(rc)))
                     EXCEPT !.idx = IF rc = 0 THEN t.idx + 1 ELSE Len(t.selected) + 1])
            /\ IF i = "gui"
               THEN status_var' = [status_var EXCEPT ![i] =
                       IF rc = 0 THEN "Completed" ELSE "Failed"]
               ELSE UNCHANGED status_var
    /\ UNCHANGED <<fs, alive, profiles, optimizations, profile_var, profile_combo,
                   run_selected_btn, completions, pc, pend, out, ops>>

\* the command exits; run_command logs the outcome
CommandExit(i, b) ==
    /\ alive[i]
    /\ b \in 1..Len(batches[i])
    /\ LET t == batches[i][b] IN
       /\ t.running
       /\ \E rc \in ExitCodes :
            /\ SetBatch(i, b, Logged(t, Result(t.selected[t.idx], "exit", rc, LoggedFor(rc))))
            /\ IF i = "gui"
               THEN status_var' = [status_var EXCEPT ![i] =
                       IF rc = 0 THEN "Completed" ELSE "Failed"]
               ELSE UNCHANGED status_var
    /\ UNCHANGED <<fs, alive, profiles, optimizations, profile_var, profile_combo,
                   run_selected_btn, completions, pc, pend, out, ops>>

RemoveAt(s, b) == [j \in 1..(Len(s) - 1) |-> IF j < b THEN s[j] ELSE s[j + 1]]

\* a thread that ends without a word: no `finally` that queues
\* optimization_complete, no closing status
BatchFinishSilent(i, b) ==
    /\ alive[i]
    /\ b \in 1..Len(batches[i])
    /\ LET t == batches[i][b] IN
       /\ ~t.running
       /\ t.idx > Len(t.selected)
    /\ batches' = [batches EXCEPT ![i] = RemoveAt(@, b)]
    /\ UNCHANGED <<fs, alive, profiles, optimizations, profile_var, profile_combo,
                   run_selected_btn, status_var, completions, pc, pend, out, ops>>

\* the loop is over and the thread ends: the enhanced interface queues
\* optimization_complete with root.after; the gui sets the status itself
BatchFinish(i, b) ==
    /\ alive[i]
    /\ b \in 1..Len(batches[i])
    /\ LET t == batches[i][b] IN
       /\ ~t.running
       /\ t.idx > Len(t.selected)
    /\ batches' = [batches EXCEPT ![i] = RemoveAt(@, b)]
    /\ IF i = "enhanced"
       THEN /\ completions' = [completions EXCEPT ![i] = @ + 1]
            /\ UNCHANGED status_var
       ELSE /\ status_var' = [status_var EXCEPT ![i] = "All optimizations completed!"]
            /\ UNCHANGED completions
    /\ UNCHANGED <<fs, alive, profiles, optimizations, profile_var, profile_combo,
                   run_selected_btn, pc, pend, out, ops>>

\* optimization_complete, run by the interactive thread
OptimizationComplete(i) ==
    /\ alive[i]
    /\ pc[i] = "idle"
    /\ completions[i] > 0
    /\ completions' = [completions EXCEPT ![i] = @ - 1]
    /\ status_var' = [status_var EXCEPT ![i] = "Optimizations complete!"]
    /\ run_selected_btn' = [run_selected_btn EXCEPT ![i] = "normal"]
    /\ out' = [out EXCEPT ![i] = Out("complete", <<>>, <<"All optimizations completed">>)]
    /\ UNCHANGED <<fs, alive, profiles, optimizations, profile_var, profile_combo,
                   batches, pc, pend, ops>>

(***************************************************************************)
(* The menu bar: a profile menu item.                                      *)
(***************************************************************************)
\* OptiMacMenuBar.run_profile: a notification and nothing else
RunProfile(i, p) ==
    /\ Interactive(i)
    /\ i = "menubar"
    /\ ops' = ops + 1
    /\ out' = [out EXCEPT ![i] =
          IF DictHas(profiles[i], p)
          THEN Out("run_profile", <<"notification: Profile Running">>, <<>>)
          ELSE Out("run_profile", <<>>, <<>>)]
    /\ UNCHANGED <<fs, alive, profiles, optimizations, profile_var, profile_combo,
                   run_selected_btn, status_var, batches, completions, pc, pend>>

\* a quick action of the menu (quick_purge_memory, quick_clear_caches, ...):
\* the callback calls run_quick_command, which calls subprocess.run on the
\* thread the callback runs on and returns only when the command has exited
QuickCommand(i) ==
    /\ Interactive(i)
    /\ i = "menubar"
    /\ ops' = ops + 1
    /\ pc' = [pc EXCEPT ![i] = "run_quick_command"]
    /\ out' = [out EXCEPT ![i] = Out("quick", <<>>, <<>>)]
    /\ UNCHANGED <<fs, alive, profiles, optimizations, profile_var, profile_combo,
                   run_selected_btn, status_var, batches, completions, pend>>

\* subprocess.run returns or raises: run_quick_command posts a notification
\* and the callback returns
QuickCommandExit(i) ==
    /\ alive[i]
    /\ pc[i] = "run_quick_command"
    /\ pc' = [pc EXCEPT ![i] = "idle"]
    /\ \E how \in {"exit", "exception"} : \E rc \in ExitCodes :
         out' = [out EXCEPT ![i] =
            IF how = "exit" /\ rc = 0
            THEN Out("quick", <<"notification: Success">>, <<>>)
            ELSE Out("quick", <<"notification: Error">>, <<>>)]
    /\ UNCHANGED <<fs, alive, profiles, optimizations, profile_var, profile_combo,
                   run_selected_btn, status_var, batches, completions, pend, ops>>

(***************************************************************************)
(* The specification.                                                      *)
(***************************************************************************)
Next ==
    \/ \E i \in Instances : Start(i)
    \/ \E i \in Guis : \E k \in Range(Checklist(i)) : ToggleOption(i, k)
    \/ \E i \in Guis : \E n \in Range(profile_combo[i]) : SelectProfile(i, n)
    \/ \E i \in Guis : LoadSelectedProfile(i)
    \/ \E i \in Guis : SaveCurrentProfile(i)
    \/ \E i \in Guis : DeleteSelectedProfile(i)
    \/ \E i \in Guis : SaveProfilesEnd(i)
    \/ \E i \in Guis : RunSelectedOptimizations(i)
    \/ \E i \in Guis : RunSelectedProfile(i)
    \/ \E i \in Guis : \E b \in 1..MaxBatches : BatchStep(i, b)
    \/ \E i \in Guis : \E b \in 1..MaxBatches : CommandExit(i, b)
    \/ \E i \in Guis : \E b \in 1..MaxBatches : BatchFinish(i, b)
    \/ \E i \in Guis : OptimizationComplete(i)
    \/ \E i \in Instances : \E p \in Range(profile_combo[i]) : RunProfile(i, p)
    \/ \E i \in Instances : QuickCommand(i)
    \/ \E i \in Instances : QuickCommandExit(i)

Spec == Init /\ [][Next]_vars

(***************************************************************************)
(* The batch executor on its own: one thread has just been started on a    *)
(* list of keys drawn from ExecLists, which holds keys the interface has   *)
(* no command for.                                                         *)
(***************************************************************************)
MaxExecLen == 3

ExecKeys == {"disable_dock_animation", "reduce_animations", "no_such_optimization"}
ExecLists == UNION {[1..n -> ExecKeys] : n \in 1..MaxExecLen}

ExecInit ==
    /\ fs = [dir |-> TRUE, file |-> FALSE, text |-> <<>>]
    /\ \E e \in Guis, selected \in ExecLists :
         LET st == [i \in Instances |->
                      IF i = e THEN Constructed(i, DefaultProfiles(i)) ELSE NotRunning]
         IN  /\ alive = [i \in Instances |-> st[i].alive]
             /\ profiles = [i \in Instances |-> st[i].profiles]
             /\ profile_combo = [i \in Instances |-> st[i].profile_combo]
             /\ status_var = [i \in Instances |->
                   IF i = "enhanced" /\ i = e THEN "Running optimizations..."
                   ELSE st[i].status_var]
             /\ run_selected_btn = [i \in Instances |->
                   IF i = "enhanced" /\ i = e THEN "disabled" ELSE "normal"]
             /\ batches = [i \in Instances |->
                   IF i = e THEN <<NewBatch(selected)>> ELSE <<>>]
             /\ out = [i \in Instances |->
                   IF i # e THEN NoOut
                   ELSE IF i = "enhanced" THEN Out("run", <<"askyesno: yes">>, <<>>)
                   ELSE Out("run", <<>>, <<"Running optimizations">>)]
    /\ optimizations = [i \in Instances |-> AllClear(i)]
    /\ profile_var = [i \in Instances |-> ""]
    /\ completions = [i \in Instances |-> 0]
    /\ pc = [i \in Instances |-> "idle"]
    /\ pend = [i \in Instances |-> NoPend]
    /\ ops = 0

ExecNext ==
    \/ \E i \in Guis : \E b \in 1..MaxBatches : BatchStep(i, b)
    \/ \E i \in Guis : \E b \in 1..MaxBatches : CommandExit(i, b)
    \/ \E i \in Guis : \E b \in 1..MaxBatches : BatchFinish(i, b)
    \/ \E i \in Guis : OptimizationComplete(i)

ExecSpec == ExecInit /\ [][ExecNext]_vars

(***************************************************************************)
(* The batch executor when a call of the thread into the toolkit can       *)
(* raise: self.log, called by execute_optimizations and by run_command     *)
(* between two commands, inserts into the log widget from the thread.      *)
(***************************************************************************)
\* the thread without try/finally: the exception ends it and nothing is
\* queued
BatchRaiseUnprotected(i, b) ==
    /\ alive[i]
    /\ b \in 1..Len(batches[i])
    /\ LET t == batches[i][b] IN
       /\ ~t.running
       /\ t.idx <= Len(t.selected)
    /\ batches' = [batches EXCEPT ![i] = RemoveAt(@, b)]
    /\ UNCHANGED <<fs, alive, profiles, optimizations, profile_var, profile_combo,
                   run_selected_btn, status_var, completions, pc, pend, out, ops>>

\* execute_optimizations raises before the list is exhausted and the
\* thread ends: in the enhanced interface the `finally` of run_optimizations
\* queues optimization_complete; the thread of the gui has no handler
BatchRaise(i, b) ==
    /\ alive[i]
    /\ b \in 1..Len(batches[i])
    /\ LET t == batches[i][b] IN
       /\ ~t.running
       /\ t.idx <= Len(t.selected)
    /\ batches' = [batches EXCEPT ![i] = RemoveAt(@, b)]
    /\ IF i = "enhanced"
       THEN completions' = [completions EXCEPT ![i] = @ + 1]
       ELSE UNCHANGED completions
    /\ UNCHANGED <<fs, alive, profiles, optimizations, profile_var, profile_combo,
                   run_selected_btn, status_var, pc, pend, out, ops>>

RaiseNext ==
    \/ ExecNext
    \/ \E i \in Guis : \E b \in 1..MaxBatches : BatchRaise(i, b)

RaiseSpec == ExecInit /\ [][RaiseNext]_vars

(***************************************************************************)
(* The store on documents the program has not written: no interface runs   *)
(* yet and profiles.json is absent, cut short, or one of StoreTexts, which  *)
(* holds JSON values that are not a mapping of profiles.                    *)
(***************************************************************************)
\* a JSON array
NotAnObject == PyList(<<PyStr("Performance Boost")>>)

\* an entry without 'optimizations'
LacksOptimizations ==
    PyDict(<< <<"Broken", PyDict(<< <<"description", PyStr("No list")>> >>)>> >>)

\* an entry without 'description'
LacksDescription ==
    PyDict(<< <<"Bare", PyDict(<< <<"optimizations", StrList(<<"optimize_git">>)>> >>)>> >>)

\* an object that holds the name "Twice" two times
TwiceText ==
    <<Punct("{"), StrTok("Twice"), Punct(":")>>
    \o JsonDump(Profile(<<"optimize_git">>, "first"))
    \o <<Punct(","), StrTok("Twice"), Punct(":")>>
    \o JsonDump(Profile(<<"disable_dock_animation", "optimize_git">>, "second"))
    \o <<Punct("}")>>

StoreTexts ==
    { JsonDump(NotAnObject), JsonDump(LacksOptimizations), JsonDump(LacksDescription),
      JsonDump(HandEdited), TwiceText, <<>> }

StoreFs ==
    { [dir |-> FALSE, file |-> FALSE, text |-> <<>>],
      [dir |-> TRUE, file |-> FALSE, text |-> <<>>] }
    \cup { [dir |-> TRUE, file |-> TRUE, text |-> t] : t \in StoreTexts }

StoreInit ==
    /\ fs \in StoreFs
    /\ alive = [i \in Instances |-> NotRunning.alive]
    /\ profiles = [i \in Instances |-> NotRunning.profiles]
    /\ profile_combo = [i \in Instances |-> NotRunning.profile_combo]
    /\ status_var = [i \in Instances |-> NotRunning.status_var]
    /\ out = [i \in Instances |-> NotRunning.out]
    /\ optimizations = [i \in Instances |-> AllClear(i)]
    /\ profile_var = [i \in Instances |-> ""]
    /\ run_selected_btn = [i \in Instances |-> "normal"]
    /\ batches = [i \in Instances |-> <<>>]
    /\ completions = [i \in Instances |-> 0]
    /\ pc = [i \in Instances |-> "idle"]
    /\ pend = [i \in Instances |-> NoPend]
    /\ ops = 0

StoreSpec == StoreInit /\ [][Next]_vars

(***************************************************************************)
(* Two windows on one document: the enhanced window and the gui window     *)
(* have both loaded the hand-written document and each has check boxes     *)
(* checked; the menu bar is not running.                                   *)
(***************************************************************************)
RaceSelections == {<<"optimize_git">>}

RaceInit ==
    /\ fs = [dir |-> TRUE, file |-> TRUE, text |-> JsonDump(HandEdited)]
    /\ LET st == [i \in Instances |->
                    IF i \in Guis
                    THEN Constructed(i, load_profiles(i, fs)) ELSE NotRunning]
       IN  /\ alive = [i \in Instances |-> st[i].alive]
           /\ profiles = [i \in Instances |-> st[i].profiles]
           /\ profile_combo = [i \in Instances |-> st[i].profile_combo]
           /\ status_var = [i \in Instances |-> st[i].status_var]
           /\ out = [i \in Instances |-> st[i].out]
    /\ \E se \in RaceSelections, sg \in RaceSelections :
         optimizations = [i \in Instances |->
            IF i = "enhanced" THEN ChecksOf(i, se)
            ELSE IF i = "gui" THEN ChecksOf(i, sg) ELSE AllClear(i)]
    /\ profile_var = [i \in Instances |-> ""]
    /\ run_selected_btn = [i \in Instances |-> "normal"]
    /\ batches = [i \in Instances |-> <<>>]
    /\ completions = [i \in Instances |-> 0]
    /\ pc = [i \in Instances |-> "idle"]
    /\ pend = [i \in Instances |-> NoPend]
    /\ ops = 0

RaceSpec == RaceInit /\ [][Next]_vars

(***************************************************************************)
(* One window with a batch thread that has just been started on            *)
(* LiveSelection, no other interface running, the user acting at most      *)
(* MaxLiveOps times more, and the steps that are not the user's taken      *)
(* eventually: the system schedules a started thread until it ends, a      *)
(* shell command exits, a write to the document returns or raises, and     *)
(* the event loop runs a callback queued with root.after once the handler  *)
(* in progress has returned.  The user may stop acting at any time.        *)
(***************************************************************************)
MaxLiveOps == 2

LiveSelection == <<"disable_dock_animation", "reduce_animations">>

LiveInit ==
    /\ ExecInit
    /\ \E e \in Guis : batches[e] = <<NewBatch(LiveSelection)>>

Fairness ==
    \A i \in Guis :
       /\ WF_vars(SaveProfilesEnd(i))
       /\ WF_vars(OptimizationComplete(i))
       /\ \A b \in 1..MaxBatches :
            /\ WF_vars(BatchStep(i, b))
            /\ WF_vars(CommandExit(i, b))
            /\ WF_vars(BatchFinish(i, b))

LiveNext ==
    \/ /\ ops < MaxLiveOps
       /\ \/ \E i \in Guis : \E k \in Range(Checklist(i)) : ToggleOption(i, k)
          \/ \E i \in Guis : \E n \in Range(profile_combo[i]) : SelectProfile(i, n)
          \/ \E i \in Guis : LoadSelectedProfile(i)
          \/ \E i \in Guis : SaveCurrentProfile(i)
          \/ \E i \in Guis : DeleteSelectedProfile(i)
          \/ \E i \in Guis : RunSelectedOptimizations(i)
          \/ \E i \in Guis : RunSelectedProfile(i)
    \/ \E i \in Guis : SaveProfilesEnd(i)
    \/ \E i \in Guis : \E b \in 1..MaxBatches : BatchStep(i, b)
    \/ \E i \in Guis : \E b \in 1..MaxBatches : CommandExit(i, b)
    \/ \E i \in Guis : \E b \in 1..MaxBatches : BatchFinish(i, b)
    \/ \E i \in Guis : OptimizationComplete(i)

LiveSpec == LiveInit /\ [][LiveNext]_vars /\ Fairness

(***************************************************************************)
(* Properties.                                                             *)
(***************************************************************************)
\* the handler has appended a batch thread to those of interface i
BatchStarted(i) == Len(batches'[i]) = Len(batches[i]) + 1

\* the list of keys of the thread the handler has appended
StartedKeys(i) == batches'[i][Len(batches'[i])].selected

\* C1: a request to run a batch while a batch of the same interface is in
\* flight is rejected or queued: at no time are two batch threads of one
\* interface in flight.
C1_OneBatchPerInterface ==
    \A i \in Guis : Len(batches[i]) <= 1

\* C2: when save_current_profile has stored profile P under name n and its
\* write has succeeded, a load of the file by any interface returns a
\* mapping that holds n with the keys of P in the order of P and with the
\* description of P.
C2_UpsertThenLoad ==
    [][\A i \in Guis :
         (SaveProfilesEnd(i) /\ pend[i].op = "save" /\ out'[i].io = "ok") =>
            \A j \in Instances : \A loaded \in {load_profiles(j, fs')} :
               /\ IsDict(loaded)
               /\ DictHas(loaded, pend[i].name)
               /\ \A p \in {DictGet(loaded, pend[i].name)} :
                  /\ IsDict(p)
                  /\ ~BadOptimizations(p)
                  /\ ProfileKeys(p) = pend[i].selected
                  /\ DictHas(p, "description")
                  /\ DictGet(p, "description") = PyStr(pend[i].description)]_vars

\* C2, reached: an interface has saved "Custom" with two keys or more, the
\* write has succeeded, and what another interface loads from the file
\* holds "Custom" with these keys.
C2_Witness ==
    \E i \in Guis, j \in Instances :
       /\ i # j
       /\ out[i].op = "save" /\ out[i].io = "ok" /\ profile_var[i] = "Custom"
       /\ Len(Selected(i)) >= 2
       /\ \A loaded \in {load_profiles(j, fs)} :
             /\ DictHas(loaded, "Custom")
             /\ ProfileKeys(DictGet(loaded, "Custom")) = Selected(i)

\* C3: a batch over a list that holds a key without a command logs one
\* outcome for every key of the list, in the order of the list; the outcome
\* of the unknown key is the "unknown" one and no other key has it; the
\* thread ends only when every key of the list has its outcome.
C3_UnknownKeyIsPassedOver ==
    [][\A i \in Guis : \A b \in 1..Len(batches[i]) :
         LET t == batches[i][b] IN
         /\ BatchFinish(i, b) => t.done = t.selected
         /\ (t.idx <= Len(t.selected) /\ (BatchStep(i, b) \/ CommandExit(i, b))
               /\ batches'[i][b].idx # t.idx) =>
               LET key == t.selected[t.idx]
                   u == batches'[i][b]
               IN  /\ u.idx = t.idx + 1
                   /\ u.done = Append(t.done, key)
                   /\ u.last.key = key
                   /\ (u.last.logged = "unknown") <=> (key \notin Catalog(i))]_vars

\* C3, reached: a list whose first key is unknown and whose second key has
\* a command has been worked through: the command of the later key has run.
C3_Witness ==
    \E i \in Guis :
       /\ Len(batches[i]) = 1
       /\ LET t == batches[i][1] IN
          /\ Len(t.selected) >= 2
          /\ t.selected[1] \notin Catalog(i)
          /\ t.selected[Len(t.selected)] \in Catalog(i)
          /\ t.done = t.selected
          /\ t.last.how = "exit"

\* C4: the outcome logged for a command is "success" exactly when the
\* command exited with code 0, and the outcomes are logged in the order of
\* the keys of the batch.
C4_SuccessIffExitZero ==
    \A i \in Guis : \A b \in 1..Len(batches[i]) :
       LET t == batches[i][b] IN
       /\ t.done = SubSeq(t.selected, 1, t.idx - 1)
       /\ t.done # <<>> => t.last.key = t.done[Len(t.done)]
       /\ (t.last.logged = "success") <=> (t.last.how = "exit" /\ t.last.rc = 0)
       /\ t.last.how = "exit" => t.last.logged \in {"success", "error"}

\* C4, reached: the second command of a batch has exited with a code other
\* than 0 and is logged as an error.
C4_Witness ==
    \E i \in Guis : \E b \in 1..Len(batches[i]) :
       LET t == batches[i][b] IN
       /\ Len(t.done) = 2
       /\ t.last.how = "exit" /\ t.last.rc = 1 /\ t.last.logged = "error"

\* C5: when the file is absent or cannot be parsed, the load of a starting
\* interface returns the non-empty defaults without raising, and neither
\* creates nor changes the file.
C5_LoadFallsBackToDefaults ==
    [][\A i \in Instances :
         (Start(i) /\ (~fs.file \/ ~JsonLoad(fs.text).ok)) =>
            /\ ~out'[i].raised
            /\ alive'[i]
            /\ profiles'[i] = DefaultProfiles(i)
            /\ Len(profiles'[i].items) > 0
            /\ fs'.file = fs.file /\ fs'.text = fs.text]_vars

\* C6: load, delete and run of a profile whose name is empty or not in the
\* store show a warning and change nothing: no check box, no profile, no
\* file, no batch.
C6_NoSuchProfileIsOnlyAWarning ==
    [][\A i \in Guis :
         (NoSuchProfile(i) /\ (\/ LoadSelectedProfile(i)
                               \/ DeleteSelectedProfile(i)
                               \/ RunSelectedProfile(i))) =>
            /\ "showwarning: No Profile" \in Range(out'[i].dialogs)
            /\ UNCHANGED <<fs, profiles, optimizations, batches, status_var,
                           run_selected_btn, profile_var, profile_combo>>]_vars

\* C7: delete of a name that is not in the store does not raise and leaves
\* the mapping in memory and the file as they are; a delete that has
\* removed a name leaves a store in which a second delete of that name
\* finds nothing to remove.
C7_DeleteOfAbsentNameIsNoOp ==
    [][\A i \in Guis :
         /\ (DeleteSelectedProfile(i) /\ ~DictHas(profiles[i], profile_var[i])) =>
               /\ ~out'[i].raised
               /\ profiles'[i] = profiles[i]
               /\ fs' = fs
               /\ pc'[i] = "idle"
         /\ (DeleteSelectedProfile(i) /\ profiles'[i] # profiles[i]) =>
               /\ ~DictHas(profiles'[i], profile_var[i])
               /\ DictDel(profiles'[i], profile_var[i]) = profiles'[i]]_vars

\* C7, reached: delete has been asked a second time for a name the first
\* delete has removed from the mapping.
C7_Witness ==
    \E i \in Guis :
       /\ out[i].op = "delete"
       /\ out[i].dialogs = <<"showwarning: No Profile">>
       /\ profile_var[i] # ""
       /\ ~DictHas(profiles[i], profile_var[i])

\* C8: the batch that Run Profile starts holds the keys of the profile in
\* the order in which the profile stores them.
C8_RunProfileKeepsStoredOrder ==
    [][\A i \in Guis :
         (RunSelectedProfile(i) /\ ~NoSuchProfile(i) /\ BatchStarted(i)) =>
            LET InCatalog(k) == k \in Catalog(i) IN
            StartedKeys(i) =
               SelectSeq(ProfileKeys(DictGet(profiles[i], profile_var[i])), InCatalog)]_vars

\* C9: a request to run a profile of the store, from a window (once
\* confirmed where the window asks) or from a profile item of the menu
\* bar, starts one batch thread that holds every key of the profile the
\* interface has a command for.
C9_RunProfileStartsABatch ==
    [][\A i \in Instances :
         /\ \A p \in Range(profile_combo[i]) :
               (RunProfile(i, p) /\ DictHas(profiles[i], p)) =>
                  /\ BatchStarted(i)
                  /\ Range(StartedKeys(i)) =
                        Range(ProfileKeys(DictGet(profiles[i], p))) \cap Catalog(i)
         /\ (i \in Guis /\ RunSelectedProfile(i) /\ ~NoSuchProfile(i)
               /\ (i = "enhanced" => "askyesno: yes" \in Range(out'[i].dialogs))) =>
                  /\ BatchStarted(i)
                  /\ Range(StartedKeys(i)) =
                        Range(ProfileKeys(DictGet(profiles[i], profile_var[i])))
                           \cap Catalog(i)]_vars

\* C10: when the write of save_current_profile or delete_selected_profile
\* fails, the exception leaves the handler: no line is logged and no
\* success message is shown.
C10_WriteFailurePropagates ==
    \A i \in Guis :
       (out[i].op \in {"save", "delete"}
          /\ out[i].io \in {"mkdir_failed", "open_failed", "dump_failed"}) =>
          /\ out[i].raised
          /\ out[i].logs = <<>>
          /\ "showinfo: Profile Saved" \notin Range(out[i].dialogs)
          /\ "showinfo: Profile Deleted" \notin Range(out[i].dialogs)

\* C10, reached: json.dump has failed part-way in a save and the file holds
\* a part of the document.
C10_Witness ==
    \E i \in Guis :
       /\ out[i].op = "save" /\ out[i].io = "dump_failed"
       /\ fs.file /\ ~JsonLoad(fs.text).ok

\* C11: a command that exits with a code other than 0, or whose launch
\* raises, is logged as failed and the thread goes on to the next key; a
\* command is started only for the key the thread is at and no key is gone
\* back to (no retry); the outcomes logged before stay as they are.
C11_FailureDoesNotStopBatch ==
    [][\A i \in Guis : \A b \in 1..Len(batches[i]) :
         LET t == batches[i][b] IN
         (BatchStep(i, b) \/ CommandExit(i, b)) =>
            \A u \in {batches'[i][b]} :
               /\ u.selected = t.selected
               /\ u.idx \in {t.idx, t.idx + 1}
               /\ u.running => (~t.running /\ u.idx = t.idx /\ u.done = t.done)
               /\ (t.running /\ u.last.rc # 0) =>
                     /\ u.last.logged = "error"
                     /\ ~u.running
                     /\ u.idx = t.idx + 1
                     /\ u.done = Append(t.done, t.selected[t.idx])
               /\ (~t.running /\ ~u.running /\ t.selected[t.idx] \in Catalog(i)) =>
                     /\ u.last.how = "exception"
                     /\ u.last.logged = "exception"
                     /\ u.idx = t.idx + 1
                     /\ u.done = Append(t.done, t.selected[t.idx])]_vars

\* C11, reached: the command of the first key has failed and the command
\* of the second key is running.
C11_Witness ==
    \E i \in Guis : \E b \in 1..Len(batches[i]) :
       LET t == batches[i][b] IN
       /\ t.running
       /\ t.idx = 2
       /\ t.last.logged \in {"error", "exception"}

\* C12: with no other interface writing and no failure of the write, when
\* save_current_profile or delete_selected_profile has completed, the
\* document in the file is the mapping the interface holds in memory.
C12_WriteThrough ==
    [][\A i \in Guis :
         (SaveProfilesEnd(i) /\ out'[i].io = "ok"
            /\ \A j \in Guis \ {i} : pc[j] = "idle") =>
            \A r \in {JsonLoad(fs'.text)} :
               /\ fs'.file
               /\ r.ok
               /\ r.val = profiles'[i]]_vars

\* C12, reached: a save has completed on a mapping of two profiles or more
\* and the file holds that mapping.
C12_Witness ==
    \E i \in Guis :
       /\ out[i].op = "save" /\ out[i].io = "ok"
       /\ \A j \in Guis : pc[j] = "idle"
       /\ Len(profiles[i].items) >= 2
       /\ JsonLoad(fs.text).ok
       /\ JsonLoad(fs.text).val = profiles[i]

\* C13: save(load()) is idempotent: for every interface and every state of
\* the file, absent or unparsable (the defaults are loaded) or parsable,
\* writing the loaded mapping as it is and loading again returns the
\* mapping of the first load.
C13_SaveOfLoadIsIdempotent ==
    \A j \in Instances : \A first \in {load_profiles(j, fs)} :
       load_profiles(j, [dir |-> TRUE, file |-> TRUE, text |-> JsonDump(first)]) = first

\* C13, reached: an interface has loaded a document whose text a save would
\* change (a name is written twice in it), and has it in memory.
C13_Witness ==
    \E j \in Instances :
       /\ alive[j] /\ out[j].op = "init" /\ out[j].io = "none"
       /\ fs.file /\ JsonLoad(fs.text).ok
       /\ profiles[j] = JsonLoad(fs.text).val
       /\ JsonDump(profiles[j]) # fs.text
       /\ JsonLoad(JsonDump(profiles[j])).val = profiles[j]

\* how many entries of the mapping d have the name k
Occurrences(d, k) == Cardinality({j \in 1..Len(d.items) : d.items[j][1] = k})

\* C14: save_current_profile under a name the store does not hold adds one
\* profile, and under a name it holds replaces the contents of that
\* profile; either way every other profile is as before, the name occurs
\* once, and the write that follows puts the whole mapping in the file.
C14_UpsertFrame ==
    [][\A i \in Guis :
         /\ (SaveCurrentProfile(i) /\ pc'[i] = "writing") =>
               \A n \in {pend'[i].name} : \A old \in {profiles[i]} : \A new \in {profiles'[i]} :
                  /\ Occurrences(new, n) = 1
                  /\ DictGet(new, n) = NewProfile(pend'[i].selected, pend'[i].description)
                  /\ Len(new.items) = Len(old.items) + (IF DictHas(old, n) THEN 0 ELSE 1)
                  /\ \A j \in 1..Len(old.items) :
                        /\ new.items[j][1] = old.items[j][1]
                        /\ old.items[j][1] # n => new.items[j] = old.items[j]
         /\ (SaveProfilesEnd(i) /\ pend[i].op = "save" /\ out'[i].io = "ok") =>
               /\ profiles'[i] = profiles[i]
               /\ fs'.file
               /\ fs'.text = JsonDump(profiles'[i])]_vars

\* C14, reached: "Performance Boost", which the store held, has been saved
\* anew and written; the store holds as many profiles as before.
C14_Witness ==
    \E i \in Guis :
       /\ out[i].op = "save" /\ out[i].io = "ok"
       /\ profile_var[i] = "Performance Boost"
       /\ DictHas(DictGet(profiles[i], "Performance Boost"), "created")
       /\ Len(profiles[i].items) = 3
       /\ fs.text = JsonDump(profiles[i])

\* C15: a confirmed delete of a name the store holds removes that profile
\* and no other from the mapping, and the write that follows puts the
\* resulting mapping in the file; a declined delete leaves the mapping and
\* the file as they are.
C15_DeleteFrame ==
    [][\A i \in Guis :
         /\ (DeleteSelectedProfile(i) /\ ~NoSuchProfile(i)) =>
               \A n \in {profile_var[i]} : \A old \in {profiles[i]} : \A new \in {profiles'[i]} :
                  IF "askyesno: yes" \in Range(out'[i].dialogs)
                  THEN /\ ~DictHas(new, n)
                       /\ Len(new.items) = Len(old.items) - 1
                       /\ \A j \in 1..Len(old.items) :
                             old.items[j][1] # n =>
                                /\ Occurrences(new, old.items[j][1]) = 1
                                /\ DictGet(new, old.items[j][1]) = old.items[j][2]
                  ELSE /\ new = old
                       /\ fs' = fs
                       /\ pc'[i] = "idle"
         /\ (SaveProfilesEnd(i) /\ pend[i].op = "delete" /\ out'[i].io = "ok") =>
               /\ profiles'[i] = profiles[i]
               /\ ~DictHas(profiles'[i], pend[i].name)
               /\ fs'.file
               /\ fs'.text = JsonDump(profiles'[i])]_vars

\* C15, reached: a confirmed delete has taken one of three profiles out of
\* the store and the file holds the two that are left.
C15_Witness ==
    \E i \in Guis :
       /\ out[i].op = "delete" /\ out[i].io = "ok"
       /\ "askyesno: yes" \in Range(out[i].dialogs)
       /\ Len(profiles[i].items) = 2
       /\ fs.text = JsonDump(profiles[i])

\* the shape of a profile: an object with a list of strings under
\* 'optimizations' and a string under 'description'
ProfileShape(p) ==
    /\ IsDict(p)
    /\ DictHas(p, "optimizations") /\ DictHas(p, "description")
    /\ IsList(DictGet(p, "optimizations"))
    /\ \A j \in 1..Len(DictGet(p, "optimizations").items) :
          DictGet(p, "optimizations").items[j].t = "str"
    /\ DictGet(p, "description").t = "str"

\* the shape of the document: an object of profiles
ProfileMapping(v) ==
    IsDict(v) /\ \A j \in 1..Len(v.items) : ProfileShape(v.items[j][2])

\* C16: when profiles.json is valid JSON that is not a mapping of profiles
\* (not an object, or an entry without its 'optimizations' list), the load
\* of a starting interface returns the defaults and not that content, and
\* load and run of a profile afterwards do not fail.
C16_SchemaMismatchFallsBack ==
    [][\A i \in Instances :
         /\ (Start(i) /\ out'[i].io = "none"
               /\ fs.file /\ JsonLoad(fs.text).ok
               /\ ~ProfileMapping(JsonLoad(fs.text).val)) =>
               /\ ~out'[i].raised
               /\ alive'[i]
               /\ profiles'[i] = DefaultProfiles(i)
         /\ (i \in Guis /\ (LoadSelectedProfile(i) \/ RunSelectedProfile(i))) =>
               ~out'[i].raised]_vars

\* C17: a failure of the I/O of load (the directory cannot be created, the
\* file cannot be opened or read) is recovered: the starting interface gets
\* the defaults and no error leaves load.
C17_LoadRecoversFromIoFailure ==
    [][\A i \in Instances :
         (Start(i) /\ out'[i].io # "none") =>
            /\ ~out'[i].raised
            /\ alive'[i]
            /\ profiles'[i] = DefaultProfiles(i)]_vars

\* the number of times the key k occurs in the list s
Count(s, k) == Cardinality({j \in 1..Len(s) : s[j] = k})

\* C18: the batch that Run Profile starts holds a key as many times as the
\* stored list of the profile holds it: a key listed twice runs twice.
C18_DuplicatesRunAgain ==
    [][\A i \in Guis :
         (RunSelectedProfile(i) /\ ~NoSuchProfile(i) /\ BatchStarted(i)) =>
            \A k \in Catalog(i) :
               Count(StartedKeys(i), k) =
                  Count(ProfileKeys(DictGet(profiles[i], profile_var[i])), k)]_vars

\* C19: when a profile that holds a key the interface has no command for is
\* run (and the run is not declined), a batch starts that holds this key,
\* for which the thread then logs the "unknown" outcome, and that holds
\* the keys of the profile the interface has commands for.
C19_UnknownProfileKeyIsLogged ==
    [][\A i \in Guis :
         (RunSelectedProfile(i) /\ ~NoSuchProfile(i) /\ ~out'[i].raised
            /\ "askyesno: no" \notin Range(out'[i].dialogs)) =>
            \A keys \in {Range(ProfileKeys(DictGet(profiles[i], profile_var[i])))} :
               keys \ Catalog(i) # {} =>
                  /\ BatchStarted(i)
                  /\ keys \cap Catalog(i) \subseteq Range(StartedKeys(i))
                  /\ keys \ Catalog(i) \subseteq Range(StartedKeys(i))]_vars

\* C20: interfaces A and B have loaded the same document; A has saved
\* profile X and the file holds it; B, which has not read the file again,
\* then saves profile Y: the mapping B writes holds Y and not X, and once
\* B's write is done the file is B's mapping: X is lost.
C20_LastWriteWins ==
    [][\A a \in Guis : \A b \in Guis \ {a} :
         (out[a].op = "save" /\ out[a].io = "ok" /\ pc[a] = "idle"
            /\ ~DictHas(profiles[b], profile_var[a])) =>
            /\ (SaveCurrentProfile(b) /\ pc'[b] = "writing"
                  /\ pend'[b].name # profile_var[a]
                  /\ JsonLoad(fs.text).ok
                  /\ DictHas(JsonLoad(fs.text).val, profile_var[a])) =>
                  /\ DictHas(profiles'[b], pend'[b].name)
                  /\ ~DictHas(profiles'[b], profile_var[a])
            /\ (SaveProfilesEnd(b) /\ pend[b].op = "save" /\ out'[b].io = "ok"
                  /\ pend[b].name # profile_var[a]) =>
                  \A r \in {JsonLoad(fs'.text)} :
                     /\ r.ok
                     /\ r.val = profiles[b]
                     /\ DictHas(r.val, pend[b].name)
                     /\ ~DictHas(r.val, profile_var[a])]_vars

\* C20, reached: A has saved X, B has saved Y after it, and the file is
\* B's mapping, with Y and without the X that A still holds in memory.
C20_Witness ==
    \E a \in Guis : \E b \in Guis \ {a} :
       /\ out[a].op = "save" /\ out[a].io = "ok" /\ pc[a] = "idle"
       /\ out[b].op = "save" /\ out[b].io = "ok" /\ pc[b] = "idle"
       /\ profile_var[a] # profile_var[b]
       /\ DictHas(profiles[a], profile_var[a])
       /\ JsonLoad(fs.text).ok
       /\ JsonLoad(fs.text).val = profiles[b]
       /\ DictHas(JsonLoad(fs.text).val, profile_var[b])
       /\ ~DictHas(JsonLoad(fs.text).val, profile_var[a])

\* C21: a save is atomic for the other interfaces: an interface that starts
\* while another one is inside save_profiles reads a complete document
\* and gets its mapping; it never finds the file empty or cut short and so
\* never takes the defaults because of the save in progress.
C21_SaveIsAtomic ==
    [][\A j \in Instances : \A i \in Guis \ {j} :
         (Start(j) /\ pc[i] = "writing" /\ out'[j].io = "none") =>
            /\ fs.file
            /\ JsonLoad(fs.text).ok
            /\ profiles'[j] = JsonLoad(fs.text).val]_vars

\* C22: in every reachable state of a window, while a batch thread of the
\* window is in flight the run control is disabled; it becomes enabled again
\* only through the completion of a batch, and never while a batch of that
\* window is still running.
C22_RunControlDisabledWhileInFlight ==
    \A i \in Guis :
        batches[i] # << >> => run_selected_btn[i] = "disabled"

\* C23: the batch thread never writes the user interface itself: a step of
\* the thread (taking a key, a command exiting, the thread ending) leaves
\* the status text and the run control as they are and adds no line to the
\* log view; only handlers of the interactive thread change them.
C23_ThreadNeverWritesTheInterface ==
    [][\A i \in Guis : \A b \in 1..Len(batches[i]) :
         (BatchStep(i, b) \/ CommandExit(i, b) \/ BatchFinish(i, b)) =>
            /\ status_var'[i] = status_var[i]
            /\ run_selected_btn'[i] = run_selected_btn[i]
            /\ \/ Len(batches'[i]) < Len(batches[i])
               \/ batches'[i][b].done = batches[i][b].done]_vars

\* C24: the interactive thread of an interface is never inside a shell
\* command: no handler waits in subprocess.run, every command of a batch
\* and of a quick action of the menu runs on a background thread.
C24_InteractiveThreadNeverBlocks ==
    \A i \in Instances : pc[i] # "run_quick_command"

\* C25: within one batch the commands run strictly one at a time: when the
\* thread starts the command of a key, no command of the batch is running,
\* and an outcome has been logged for every earlier key of the list, the
\* last one for the key just before.
C25_OneCommandAtATime ==
    [][\A i \in Guis : \A b \in 1..Len(batches[i]) :
         LET t == batches[i][b] IN
         (BatchStep(i, b) /\ batches'[i][b].running) =>
            /\ ~t.running
            /\ batches'[i][b].idx = t.idx
            /\ t.done = SubSeq(t.selected, 1, t.idx - 1)
            /\ t.idx > 1 =>
                 /\ t.last.key = t.selected[t.idx - 1]
                 /\ t.last.logged # "none"]_vars

\* C25, reached: the command of the first key has exited, its outcome is
\* logged, and the command of the second key is running.
C25_Witness ==
    \E i \in Guis : \E b \in 1..Len(batches[i]) :
       LET t == batches[i][b] IN
       /\ t.running
       /\ t.idx = 2
       /\ t.last.how = "exit"
       /\ t.last.key = t.selected[1]
       /\ t.done = <<t.selected[1]>>

\* the window has signalled the end of its batches and none is in flight:
\* the enhanced window has run optimization_complete for every thread that
\* ended, the gui window shows the closing status of the thread
Signalled(i) ==
    /\ batches[i] = << >>
    /\ IF i = "enhanced"
       THEN /\ completions[i] = 0
            /\ status_var[i] = "Optimizations complete!"
            /\ run_selected_btn[i] = "normal"
       ELSE status_var[i] = "All optimizations completed!"

C27_CompletionScheduledOnce ==
    [][LET e == "enhanced" IN
       /\ \A b \in 1..Len(batches[e]) :
            (BatchFinish(e, b) \/ BatchRaise(e, b)) =>
               /\ ~batches[e][b].running
               /\ completions'[e] = completions[e] + 1
       /\ Len(batches'[e]) < Len(batches[e]) =>
            /\ Len(batches'[e]) = Len(batches[e]) - 1
            /\ completions'[e] = completions[e] + 1
       /\ completions'[e] > completions[e] =>
            Len(batches'[e]) = Len(batches[e]) - 1
       /\ OptimizationComplete(e) =>
            /\ completions'[e] = completions[e] - 1
            /\ status_var'[e] = "Optimizations complete!"
            /\ run_selected_btn'[e] = "normal"
            /\ out'[e].logs = <<"All optimizations completed">>]_vars

\* C27, reached: the thread of the enhanced window has ended, the handler
\* queued for it has run, and nothing more is queued.
C27_Witness ==
    /\ batches["enhanced"] = << >>
    /\ completions["enhanced"] = 0
    /\ out["enhanced"].op = "complete"
    /\ status_var["enhanced"] = "Optimizations complete!"
    /\ run_selected_btn["enhanced"] = "normal"

\* C28: after load_selected_profile on a profile of the mapping that has a
\* list of keys, the checked boxes are exactly the keys of the profile that
\* are in the checklist, so a box checked before and not in the profile is
\* unchecked; the mapping in memory, the selector and the document are as
\* they were.
C28_LoadChecksExactlyTheProfile ==
    [][\A i \in Guis :
         (LoadSelectedProfile(i) /\ ~NoSuchProfile(i)
            /\ ~BadOptimizations(DictGet(profiles[i], profile_var[i]))) =>
            LET keys == ProfileKeys(DictGet(profiles[i], profile_var[i])) IN
            /\ {k \in Range(Checklist(i)) : optimizations'[i][k]}
                 = Range(keys) \cap Range(Checklist(i))
            /\ \A k \in Range(Checklist(i)) :
                 (optimizations[i][k] /\ k \notin Range(keys)) => ~optimizations'[i][k]
            /\ profiles' = profiles
            /\ profile_combo' = profile_combo
            /\ fs' = fs]_vars

\* C28, reached: a profile has been loaded, a box outside the profile that
\* the user had checked is unchecked, and a key of the profile is checked.
C28_Witness ==
    \E i \in Guis :
       /\ out[i].op = "load"
       /\ out[i].logs = <<"Loaded profile">>
       /\ ops = 3
       /\ DictHas(profiles[i], profile_var[i])
       /\ LET keys == ProfileKeys(DictGet(profiles[i], profile_var[i])) IN
          /\ Selected(i) # << >>
          /\ \A k \in Range(Checklist(i)) : optimizations[i][k] <=> k \in Range(keys)
          /\ \E k \in Range(Checklist(i)) : k \notin Range(keys)

\* C29: when the file exists, is read and parses to a mapping, the
\* interface starts with exactly that mapping: no default is merged in, so
\* a seed profile that was deleted does not come back in a new instance,
\* and the empty mapping loads as the empty mapping.
C29_LoadReturnsThePersistedMapping ==
    [][\A j \in Instances :
         (Start(j) /\ out'[j].io = "none" /\ fs.file) =>
            \A r \in {JsonLoad(fs.text)} :
               (r.ok /\ IsDict(r.val)) =>
                  /\ alive'[j]
                  /\ profiles'[j] = r.val
                  /\ profile_combo'[j] = DictKeys(r.val)
                  /\ \A n \in Range(DictKeys(DefaultProfiles(j))) :
                       DictHas(profiles'[j], n) => DictHas(r.val, n)
                  /\ r.val = PyDict(<< >>) => profiles'[j] = PyDict(<< >>)]_vars

\* C29, reached: a window has deleted the seed profile "Performance Boost",
\* and an interface started afterwards has loaded the document and holds
\* the two other profiles only.
C29_Witness ==
    \E j \in Instances :
       /\ alive[j]
       /\ out[j].op = "init"
       /\ out[j].io = "none"
       /\ ops = 3
       /\ fs.file
       /\ JsonLoad(fs.text).ok
       /\ profiles[j] = JsonLoad(fs.text).val
       /\ ~DictHas(profiles[j], "Performance Boost")
       /\ DictHas(profiles[j], "Developer Setup")
       /\ Len(profile_combo[j]) = 2

\* C29, reached as well: an interface has started on a document that holds
\* the empty mapping and holds no profile.
C29_EmptyMappingLoaded ==
    \E j \in Instances :
       /\ alive[j]
       /\ out[j].op = "init"
       /\ out[j].io = "none"
       /\ fs.file
       /\ JsonLoad(fs.text).ok
       /\ JsonLoad(fs.text).val = PyDict(<< >>)
       /\ profiles[j] = PyDict(<< >>)

\* C30: save_current_profile and delete_selected_profile change the mapping
\* in memory before they write.  When mkdir or open raises, the mapping
\* holds the new profile (or lacks the deleted one), the file is as it was,
\* and the selector is not refreshed; when json.dump raises, the mapping
\* keeps the change, the file holds a cut document that does not parse,
\* and the selector is not refreshed.
C30_FailedWriteKeepsMemoryChange ==
    [][\A i \in Guis :
         /\ (SaveCurrentProfile(i) /\ out'[i].raised) =>
               /\ out'[i].io \in {"mkdir_failed", "open_failed"}
               /\ \E name \in NameInputs :
                     /\ DictHas(profiles'[i], name)
                     /\ ProfileKeys(DictGet(profiles'[i], name)) = Selected(i)
               /\ fs'.file = fs.file /\ fs'.text = fs.text
               /\ profile_combo'[i] = profile_combo[i]
         /\ (DeleteSelectedProfile(i) /\ out'[i].raised) =>
               /\ out'[i].io \in {"mkdir_failed", "open_failed"}
               /\ DictHas(profiles[i], profile_var[i])
               /\ ~DictHas(profiles'[i], profile_var[i])
               /\ fs'.file = fs.file /\ fs'.text = fs.text
               /\ profile_combo'[i] = profile_combo[i]
         /\ (SaveProfilesEnd(i) /\ out'[i].raised) =>
               /\ out'[i].io = "dump_failed"
               /\ profiles'[i] = profiles[i]
               /\ pend[i].op = "save" => DictHas(profiles[i], pend[i].name)
               /\ pend[i].op = "delete" => ~DictHas(profiles[i], pend[i].name)
               /\ ~JsonLoad(fs'.text).ok
               /\ profile_combo'[i] = profile_combo[i]]_vars

\* C30, reached: open has raised in delete_selected_profile: the mapping in
\* memory lacks the profile, the document in the file still holds it, and
\* the selector still lists it.
C30_Witness ==
    \E i \in Guis :
       /\ alive[i]
       /\ out[i].op = "delete"
       /\ out[i].raised
       /\ out[i].io = "open_failed"
       /\ ~DictHas(profiles[i], profile_var[i])
       /\ profile_var[i] \in Range(profile_combo[i])
       /\ fs.file
       /\ JsonLoad(fs.text).ok
       /\ IsDict(JsonLoad(fs.text).val)
       /\ DictHas(JsonLoad(fs.text).val, profile_var[i])

====
